--------------------------- MODULE SchedulerProofs ---------------------------
(* Proofs about Scheduler for any schedules, requests, periods and lock time. *)
EXTENDS Scheduler, Integers, TLAPS

RunIds == Ticks \cup Manuals

\* nextRun() returns a time that lies strictly ahead.
LEMMA NextRunLater ==
  ASSUME NEW p \in Nat \ {0}, NEW t \in Nat
  PROVE  NextRun(p, t) \in Nat /\ t < NextRun(p, t)
<1>1. t \div p \in Nat /\ t % p \in 0..(p - 1) /\ t = p * (t \div p) + (t % p)
  BY Z3
<1> DEFINE d == t \div p
<1>2. (d + 1) * p = p * d + p
  BY <1>1, Z3
<1>3. p * d \in Nat
  BY <1>1, Z3
<1> QED
  BY <1>1, <1>2, <1>3 DEF NextRun

\* A fresh panel satisfies the strengthening.
LEMMA SchedInit == Init => IndInv
<1> SUFFICES ASSUME Init PROVE IndInv
  OBVIOUS
<1> USE SchedulerAssumption DEF Init, Idle, Ticks
<1>1. AnyPeriod \in Periods
  BY DEF AnyPeriod
<1>2. TypeOK
  BY <1>1 DEF TypeOK
<1>3. \A s \in Schedules : Runs(s) = {}
  BY DEF Runs
<1>4. TurnInv
  BY DEF TurnInv
<1>5. LockInv /\ NoOverlapUnlessOverrun
  BY <1>3 DEF LockInv, NoOverlapUnlessOverrun
<1>6. HorizonInv /\ OrphanLocksExpire /\ FiredInv
  BY DEF HorizonInv, OrphanLocksExpire, FiredInv
<1> QED
  BY <1>2, <1>4, <1>5, <1>6 DEF IndInv

\* finalize() keeps the types of the row.
LEMMA FinalizeType ==
  ASSUME TypeOK, NEW s \in Schedules, Finalize(s)
  PROVE  /\ held' \in [Schedules -> BOOLEAN]
         /\ lock' \in [Schedules -> 0..MaxTime + TTL]
         /\ next' \in [Schedules -> Nat]
<1>0. cron \in [Schedules -> Periods] /\ clock \in 0..MaxTime
  BY DEF TypeOK
<1>1. cron[s] \in Nat \ {0} /\ clock \in Nat
  <2>1. cron[s] \in Periods
    BY <1>0
  <2>2. \A p \in Periods : p \in Nat \ {0}
    BY SchedulerAssumption
  <2>3. clock \in Nat
    BY <1>0, SchedulerAssumption
  <2> QED
    BY <2>1, <2>2, <2>3, Zenon
<1>2. NextRun(cron[s], clock) \in Nat
  BY <1>1, NextRunLater
<1>3. 0 \in 0..MaxTime + TTL
  BY SchedulerAssumption
<1> QED
  BY <1>2, <1>3 DEF Finalize, TypeOK

\* Every variable keeps its type.
LEMMA SchedTypeStep == TypeOK /\ [Next]_vars => TypeOK'
<1> SUFFICES ASSUME TypeOK, [Next]_vars PROVE TypeOK'
  OBVIOUS
<1> USE SchedulerAssumption
<1>t. TypeOK
  OBVIOUS
<1>w. WatchLocks => overrun' \in [Schedules -> BOOLEAN]
  BY DEF WatchLocks
<1>i. Idle \in [sched : Schedules \cup {None}, until : 0..MaxTime + TTL]
  BY DEF Idle
<1>n. \A s \in Schedules, p \in Periods : NextRun(p, clock) \in Nat
  <2> SUFFICES ASSUME NEW p \in Periods PROVE NextRun(p, clock) \in Nat
    OBVIOUS
  <2>1. p \in Nat \ {0} /\ clock \in Nat
    BY DEF TypeOK
  <2> QED
    BY <2>1, NextRunLater
<1>1. CASE Tick
  <2>1. clock' \in Ticks /\ clock' \in 0..MaxTime
    BY <1>1, <1>t DEF Tick, TypeOK, Ticks
  <2>3. due \in [Ticks -> [Schedules -> Nat]] /\ next \in [Schedules -> Nat] /\ turn \in Ticks \cup {0}
    BY <1>t DEF TypeOK
  <2>4. [s \in Schedules |-> IF Due(s, clock') THEN next[s] ELSE 0] \in [Schedules -> Nat]
    BY <2>3
  <2>2. due' \in [Ticks -> [Schedules -> Nat]] /\ turn' \in Ticks \cup {0}
    BY <1>1, <2>1, <2>3, <2>4 DEF Tick
  <2> QED
    BY <1>1, <1>t, <1>w, <2>1, <2>2 DEF Tick, TypeOK, rowVars
<1>2. ASSUME NEW t \in Ticks, TickLoop(t) PROVE TypeOK'
  <2> PICK s \in Listed(t) :
         /\ due' = [due EXCEPT ![t][s] = 0]
         /\ IF Claimable(s, t)
            THEN TickRuns(t, s) \/ TickSkips(s)
            ELSE UNCHANGED <<held, lock, next, run, turn, overrun, fired>>
    BY <1>2 DEF TickLoop
  <2>0. s \in Schedules /\ t \in RunIds
    BY DEF Listed, RunIds
  <2>1. due' \in [Ticks -> [Schedules -> Nat]]
    BY <1>t, <2>0 DEF TypeOK
  <2>2. UNCHANGED <<clock, up, live, active, cron, downAt>>
    BY <1>2 DEF TickLoop
  <2>3. CASE Claimable(s, t) /\ TickRuns(t, s)
    <3>1. t + TTL \in 0..MaxTime + TTL /\ next[s] \in 0..MaxTime
      BY <2>0, <2>3, <1>t DEF Ticks, Claimable, Due, TypeOK
    <3>2. overrun' \in [Schedules -> BOOLEAN]
      BY <1>w, <2>3 DEF TickRuns
    <3>3. [sched |-> s, until |-> t + TTL] \in [sched : Schedules \cup {None}, until : 0..MaxTime + TTL]
      BY <2>0, <3>1
    <3> QED
      BY <1>t, <2>0, <2>1, <2>2, <2>3, <3>1, <3>2, <3>3 DEF TickRuns, TypeOK
  <2>4. CASE Claimable(s, t) /\ TickSkips(s)
    <3>1. Finalize(s) /\ UNCHANGED <<run, turn, overrun, fired>>
      BY <2>4 DEF TickSkips
    <3> QED
      BY <1>t, <2>0, <2>1, <2>2, <3>1, FinalizeType DEF TypeOK
  <2>5. CASE UNCHANGED <<held, lock, next, run, turn, overrun, fired>>
    BY <1>t, <2>1, <2>2, <2>5 DEF TypeOK
  <2> QED
    BY <2>3, <2>4, <2>5
<1>3. ASSUME NEW t \in Ticks, TickDone(t) PROVE TypeOK'
  BY <1>3, <1>t DEF TickDone, TypeOK, rowVars, histVars
<1>4. ASSUME NEW t \in Ticks, TickRunEnds(t) PROVE TypeOK'
  <2>1. run' \in [Ticks \cup Manuals -> [sched : Schedules \cup {None}, until : 0..MaxTime + TTL]]
    BY <1>4, <1>t, <1>i DEF TickRunEnds, TypeOK
  <2>2. /\ held' \in [Schedules -> BOOLEAN]
        /\ lock' \in [Schedules -> 0..MaxTime + TTL]
        /\ next' \in [Schedules -> Nat]
    <3>1. CASE run[t].sched \in Schedules
      BY <3>1, <1>4, FinalizeType DEF TickRunEnds
    <3>2. CASE run[t].sched \notin Schedules
      BY <3>2, <1>4, <1>t DEF TickRunEnds, Finalize, TypeOK
    <3> QED
      BY <3>1, <3>2
  <2> QED
    BY <1>4, <1>t, <1>w, <2>1, <2>2 DEF TickRunEnds, TypeOK
<1>5. ASSUME NEW m \in Manuals, NEW s \in Schedules, RunOnce(m, s) PROVE TypeOK'
  <2>1. clock + TTL \in 0..MaxTime + TTL
    BY <1>t DEF TypeOK
  <2>2. [sched |-> s, until |-> clock + TTL] \in [sched : Schedules \cup {None}, until : 0..MaxTime + TTL]
    BY <2>1
  <2> QED
    BY <1>5, <1>t, <1>w, <2>1, <2>2 DEF RunOnce, TypeOK
<1>6. ASSUME NEW m \in Manuals, ManualEnds(m) PROVE TypeOK'
  <2>1. run' \in [Ticks \cup Manuals -> [sched : Schedules \cup {None}, until : 0..MaxTime + TTL]]
    BY <1>6, <1>t, <1>i DEF ManualEnds, TypeOK
  <2>2. held' \in [Schedules -> BOOLEAN] /\ lock' \in [Schedules -> 0..MaxTime + TTL]
    <3>1. held \in [Schedules -> BOOLEAN] /\ lock \in [Schedules -> 0..MaxTime + TTL]
      BY <1>t DEF TypeOK
    <3>2. 0 \in 0..MaxTime + TTL
      OBVIOUS
    <3> QED
      BY <1>6, <3>1, <3>2 DEF ManualEnds
  <2> QED
    BY <1>6, <1>t, <1>w, <2>1, <2>2 DEF ManualEnds, TypeOK
<1>7. ASSUME NEW s \in Schedules, RunOnceSkips(s) PROVE TypeOK'
  BY <1>7, <1>t DEF RunOnceSkips, TypeOK, histVars
<1>8. ASSUME NEW s \in Schedules, SetActive(s) PROVE TypeOK'
  BY <1>8, <1>t DEF SetActive, TypeOK, histVars
<1>9. ASSUME NEW s \in Schedules, Remove(s) PROVE TypeOK'
  <2>1. AnyPeriod \in Periods
    BY DEF AnyPeriod
  <2> QED
    BY <1>9, <1>t, <2>1 DEF Remove, TypeOK
<1>10. ASSUME NEW s \in Schedules, NEW p \in Periods, Create(s, p) PROVE TypeOK'
  BY <1>10, <1>t, <1>n DEF Create, TypeOK
<1>11. ASSUME NEW s \in Schedules, NEW p \in Periods, EditCron(s, p) PROVE TypeOK'
  BY <1>11, <1>t, <1>n DEF EditCron, TypeOK, histVars
<1>12. CASE PanelEnds
  <2>1. due' \in [Ticks -> [Schedules -> Nat]]
    BY <1>12 DEF PanelEnds
  <2>2. run' \in [Ticks \cup Manuals -> [sched : Schedules \cup {None}, until : 0..MaxTime + TTL]]
    BY <1>12, <1>i DEF PanelEnds
  <2>3. overrun' \in [Schedules -> BOOLEAN] /\ fired' \in [Schedules -> 0..MaxTime]
    BY <1>12 DEF PanelEnds
  <2>4. up' \in BOOLEAN /\ turn' \in Ticks \cup {0} /\ downAt' \in 0..MaxTime \cup {None}
    BY <1>12, <1>t DEF PanelEnds, TypeOK
  <2> QED
    BY <1>12, <1>t, <2>1, <2>2, <2>3, <2>4 DEF PanelEnds, TypeOK, rowVars
<1>13. CASE Boot
  BY <1>13, <1>t DEF Boot, TypeOK, rowVars, histVars
<1>14. CASE UNCHANGED vars
  BY <1>14, <1>t DEF TypeOK, vars, rowVars, histVars
<1> QED
  BY <1>1, <1>2, <1>3, <1>4, <1>5, <1>6, <1>7, <1>8, <1>9, <1>10, <1>11, <1>12, <1>13, <1>14 DEF Next

-----------------------------------------------------------------------------
(* Who may touch a lock *)

\* What the types of a state say, in the form the lemmas below use.
LEMMA SchedTypes ==
  ASSUME TypeOK
  PROVE  /\ clock \in Nat /\ turn \in Nat
         /\ live \subseteq Schedules
         /\ overrun \in [Schedules -> BOOLEAN]
         /\ held \in [Schedules -> BOOLEAN]
         /\ lock \in [Schedules -> Nat]
         /\ DOMAIN run = RunIds
         /\ \A r \in RunIds : run[r].until \in Nat
<1>1. /\ clock \in 0..MaxTime /\ turn \in Ticks \cup {0}
      /\ lock \in [Schedules -> 0..MaxTime + TTL]
      /\ run \in [RunIds -> [sched : Schedules \cup {None}, until : 0..MaxTime + TTL]]
  BY DEF TypeOK, RunIds
<1> QED
  BY <1>1, SchedulerAssumption DEF TypeOK, Ticks

\* A schedule that can be claimed is not running, unless a run of it overran.
LEMMA ClaimAlone ==
  ASSUME TypeOK, LockInv, NEW s \in live, NEW now \in Nat, now <= clock, Unlocked(s, now)
  PROVE  overrun[s] \/ Runs(s) = {}
<1> SUFFICES ASSUME ~overrun[s], NEW r \in Runs(s) PROVE FALSE
  OBVIOUS
<1>0. s \in Schedules /\ r \in RunIds
  BY SchedTypes DEF Runs
<1>1. clock < run[r].until /\ held[s] /\ lock[s] = run[r].until
  BY <1>0 DEF LockInv
<1> QED
  BY <1>0, <1>1, SchedTypes DEF Unlocked

\* What the watch says of a schedule without overrun.
LEMMA WatchSays ==
  ASSUME TypeOK, TypeOK', WatchLocks, NEW s \in Schedules, ~overrun'[s],
         NEW r \in RunIds, run'[r].sched = s
  PROVE  ~overrun[s] /\ clock' < run'[r].until
<1>1. DOMAIN run = RunIds /\ clock' \in Nat /\ run'[r].until \in Nat
  <2>1. /\ clock' \in 0..MaxTime
        /\ run' \in [RunIds -> [sched : Schedules \cup {None}, until : 0..MaxTime + TTL]]
    BY DEF TypeOK, RunIds
  <2> QED
    BY <2>1, SchedTypes, SchedulerAssumption
<1> QED
  BY <1>1 DEF WatchLocks

\* The two invariants about locks, which every step below keeps together.
Locks == LockInv /\ NoOverlapUnlessOverrun

\* A claim: r begins to run s with a lock until u.
LEMMA LocksTake ==
  ASSUME TypeOK, TypeOK', Locks, NEW s \in live, NEW r \in RunIds, NEW u,
         overrun[s] \/ Runs(s) = {},
         run' = [run EXCEPT ![r] = [sched |-> s, until |-> u]],
         held' = [held EXCEPT ![s] = TRUE],
         lock' = [lock EXCEPT ![s] = u],
         WatchLocks, clock' = clock, live' = live
  PROVE  Locks'
<1>1. /\ DOMAIN run = RunIds /\ DOMAIN run' = RunIds /\ s \in Schedules
      /\ held \in [Schedules -> BOOLEAN] /\ lock \in [Schedules -> Nat]
  BY SchedTypes
<1>2. ASSUME NEW x \in Schedules, ~overrun'[x], NEW q \in RunIds, run'[q].sched = x
      PROVE  /\ clock' < run'[q].until
             /\ x \in live' => held'[x] /\ lock'[x] = run'[q].until
             /\ q = r \/ (q \in Runs(x) /\ x # s)
  <2>1. ~overrun[x] /\ clock' < run'[q].until
    BY <1>2, WatchSays
  <2>2. CASE q = r
    <3>1. x = s /\ run'[q].until = u
      BY <1>1, <1>2, <2>2
    <3>2. held'[s] = TRUE
      BY <1>1
    <3>3. lock'[s] = u
      BY <1>1
    <3>4. held'[x] /\ lock'[x] = run'[q].until
      BY <3>1, <3>2, <3>3, Zenon
    <3> QED
      BY <2>1, <2>2, <3>4
  <2>3. CASE q # r
    <3>1. run'[q] = run[q] /\ q \in Runs(x)
      BY <1>1, <1>2, <2>3 DEF Runs
    <3>2. x # s
      BY <2>1, <3>1
    <3> QED
      BY <1>1, <2>1, <3>1, <3>2 DEF Locks, LockInv
  <2> QED
    BY <2>2, <2>3
<1>3. ASSUME NEW x \in Schedules, ~overrun'[x],
             NEW q1 \in RunIds, run'[q1].sched = x, NEW q2 \in RunIds, run'[q2].sched = x
      PROVE  q1 = q2
  <2>1. /\ q1 = r \/ (q1 \in Runs(x) /\ x # s)
        /\ q2 = r \/ (q2 \in Runs(x) /\ x # s)
    BY <1>2, <1>3
  <2>2. run'[r].sched = s
    BY <1>1
  <2>3. ~overrun[x]
    BY <1>3, WatchSays
  <2> QED
    BY <1>3, <2>1, <2>2, <2>3 DEF Locks, NoOverlapUnlessOverrun
<1> QED
  BY <1>1, <1>2, <1>3 DEF Locks, LockInv, NoOverlapUnlessOverrun, Runs

\* The end of a run: r stops running s, whose lock, if anybody's, is released.
LEMMA LocksLeave ==
  ASSUME TypeOK, TypeOK', Locks, NEW r \in RunIds, run[r] # Idle, None \notin Schedules,
         run' = [run EXCEPT ![r] = Idle],
         \A x \in live \ {run[r].sched} : held'[x] = held[x] /\ lock'[x] = lock[x],
         WatchLocks, clock' = clock, live' = live
  PROVE  Locks'
<1>1. DOMAIN run = RunIds /\ DOMAIN run' = RunIds /\ live \subseteq Schedules
  BY SchedTypes
<1>2. ASSUME NEW x \in Schedules, ~overrun'[x], NEW q \in RunIds, run'[q].sched = x
      PROVE  /\ ~overrun[x] /\ q \in Runs(x)
             /\ clock' < run'[q].until
             /\ x \in live' => held'[x] /\ lock'[x] = run'[q].until
  <2>1. ~overrun[x] /\ clock' < run'[q].until
    BY <1>2, WatchSays
  <2>2. q # r
    BY <1>1, <1>2 DEF Idle
  <2>3. run'[q] = run[q] /\ q \in Runs(x)
    BY <1>1, <1>2, <2>2 DEF Runs
  <2>4. x # run[r].sched
    BY <1>1, <2>1, <2>2, <2>3 DEF Locks, NoOverlapUnlessOverrun, Runs
  <2> QED
    BY <2>1, <2>3, <2>4 DEF Locks, LockInv
<1> QED
  BY <1>1, <1>2 DEF Locks, LockInv, NoOverlapUnlessOverrun, Runs

\* A step that begins and ends no run, and leaves the locks of running schedules.
LEMMA LocksQuiet ==
  ASSUME TypeOK, TypeOK', Locks, UNCHANGED <<clock, run, overrun>>,
         \A x \in live' : (x \in live /\ held'[x] = held[x] /\ lock'[x] = lock[x])
                          \/ overrun[x] \/ Runs(x) = {}
  PROVE  Locks'
  BY SchedTypes DEF Locks, LockInv, NoOverlapUnlessOverrun, Runs

\* A step that only lets time pass and takes note of the runs that overran.
LEMMA LocksWatch ==
  ASSUME TypeOK, TypeOK', Locks, WatchLocks, UNCHANGED <<live, held, lock, run>>
  PROVE  Locks'
<1>1. DOMAIN run = RunIds
  BY SchedTypes
<1>2. ASSUME NEW x \in Schedules, ~overrun'[x], NEW q \in RunIds, run'[q].sched = x
      PROVE  ~overrun[x] /\ clock' < run'[q].until /\ q \in Runs(x)
  BY <1>1, <1>2, WatchSays DEF Runs
<1> QED
  BY <1>1, <1>2 DEF Locks, LockInv, NoOverlapUnlessOverrun, Runs

\* No step breaks the pair.
LEMMA LocksStep == TypeOK /\ TypeOK' /\ TurnInv /\ Locks /\ [Next]_vars => Locks'
<1> SUFFICES ASSUME TypeOK, TypeOK', TurnInv, Locks, [Next]_vars PROVE Locks'
  OBVIOUS
<1>a. LockInv
  BY DEF Locks
<1>c. clock \in Nat /\ live \subseteq Schedules
      /\ held \in [Schedules -> BOOLEAN] /\ lock \in [Schedules -> Nat]
  BY SchedTypes
<1>1. CASE Tick
  BY <1>1, LocksWatch DEF Tick, rowVars
<1>2. ASSUME NEW t \in Ticks, TickLoop(t) PROVE Locks'
  <2> PICK s \in Listed(t) :
         IF Claimable(s, t)
         THEN TickRuns(t, s) \/ TickSkips(s)
         ELSE UNCHANGED <<held, lock, next, run, turn, overrun, fired>>
    BY <1>2 DEF TickLoop
  <2>1. UNCHANGED <<clock, live>> /\ t \in RunIds
    BY <1>2 DEF TickLoop, RunIds
  <2>2. t \in Nat /\ t <= clock
    BY <1>2, SchedulerAssumption DEF TickLoop, TurnInv, Ticks
  <2>3. ASSUME Claimable(s, t) PROVE s \in live /\ (overrun[s] \/ Runs(s) = {})
    BY <1>a, <2>2, <2>3, ClaimAlone DEF Claimable, Due
  <2>4. CASE Claimable(s, t) /\ TickRuns(t, s)
    <3>1. /\ run' = [run EXCEPT ![t] = [sched |-> s, until |-> t + TTL]]
          /\ held' = [held EXCEPT ![s] = TRUE]
          /\ lock' = [lock EXCEPT ![s] = t + TTL]
          /\ WatchLocks
      BY <2>4 DEF TickRuns
    <3> QED
      BY <2>1, <2>3, <2>4, <3>1, LocksTake
  <2>5. CASE Claimable(s, t) /\ TickSkips(s)
    <3>1. UNCHANGED <<run, overrun>>
          /\ \A x \in live \ {s} : held'[x] = held[x] /\ lock'[x] = lock[x]
      BY <1>c, <2>5 DEF TickSkips, Finalize
    <3> QED
      BY <2>1, <2>3, <2>5, <3>1, LocksQuiet
  <2>6. CASE UNCHANGED <<held, lock, next, run, turn, overrun, fired>>
    BY <2>1, <2>6, LocksQuiet
  <2> QED
    BY <2>4, <2>5, <2>6
<1>3. ASSUME NEW t \in Ticks, TickDone(t) PROVE Locks'
  BY <1>3, LocksQuiet DEF TickDone, rowVars, histVars
<1>4. ASSUME NEW t \in Ticks, TickRunEnds(t) PROVE Locks'
  <2>1. \A x \in live \ {run[t].sched} : held'[x] = held[x] /\ lock'[x] = lock[x]
    BY <1>4, <1>c DEF TickRunEnds, Finalize
  <2> QED
    BY <1>4, <2>1, LocksLeave, SchedulerAssumption DEF TickRunEnds, RunIds
<1>5. ASSUME NEW m \in Manuals, NEW s \in Schedules, RunOnce(m, s) PROVE Locks'
  <2>1. overrun[s] \/ Runs(s) = {}
    BY <1>5, <1>a, <1>c, ClaimAlone DEF RunOnce
  <2> QED
    BY <1>5, <2>1, LocksTake DEF RunOnce, RunIds
<1>6. ASSUME NEW m \in Manuals, ManualEnds(m) PROVE Locks'
  <2>1. \A x \in live \ {run[m].sched} : held'[x] = held[x] /\ lock'[x] = lock[x]
    BY <1>6, <1>c DEF ManualEnds
  <2> QED
    BY <1>6, <2>1, LocksLeave, SchedulerAssumption DEF ManualEnds, RunIds
<1>7. ASSUME NEW s \in Schedules, RunOnceSkips(s) PROVE Locks'
  <2>1. overrun[s] \/ Runs(s) = {}
    BY <1>7, <1>a, <1>c, ClaimAlone DEF RunOnceSkips
  <2>2. \A x \in live \ {s} : held'[x] = held[x] /\ lock'[x] = lock[x]
    BY <1>7, <1>c DEF RunOnceSkips
  <2> QED
    BY <1>7, <2>1, <2>2, LocksQuiet DEF RunOnceSkips, histVars
<1>8. ASSUME NEW s \in Schedules, SetActive(s) PROVE Locks'
  BY <1>8, LocksQuiet DEF SetActive, histVars
<1>9. ASSUME NEW s \in Schedules, Remove(s) PROVE Locks'
  <2>1. \A x \in live' : x \in live /\ held'[x] = held[x] /\ lock'[x] = lock[x]
    BY <1>9, <1>c DEF Remove
  <2> QED
    BY <1>9, <2>1, LocksQuiet DEF Remove
<1>10. ASSUME NEW s \in Schedules, NEW p \in Periods, Create(s, p) PROVE Locks'
  <2>1. \A x \in live' : (x \in live /\ held'[x] = held[x] /\ lock'[x] = lock[x]) \/ Runs(x) = {}
    BY <1>10, <1>c DEF Create
  <2> QED
    BY <1>10, <2>1, LocksQuiet DEF Create
<1>11. ASSUME NEW s \in Schedules, NEW p \in Periods, EditCron(s, p) PROVE Locks'
  BY <1>11, LocksQuiet DEF EditCron, histVars
<1>12. CASE PanelEnds
  <2>1. \A x \in Schedules : Runs(x)' = {}
    BY <1>12, SchedulerAssumption DEF PanelEnds, Runs, Idle
  <2> QED
    BY <2>1 DEF Locks, LockInv, NoOverlapUnlessOverrun
<1>13. CASE Boot
  BY <1>13, LocksQuiet DEF Boot, rowVars, histVars
<1>14. CASE UNCHANGED vars
  BY <1>14, LocksQuiet DEF vars, rowVars, histVars
<1> QED
  BY <1>1, <1>2, <1>3, <1>4, <1>5, <1>6, <1>7, <1>8, <1>9, <1>10, <1>11, <1>12, <1>13, <1>14 DEF Next

-----------------------------------------------------------------------------
(* The other parts of the strengthening *)

\* What else the types say.
LEMMA RowTypes ==
  ASSUME TypeOK
  PROVE  /\ next \in [Schedules -> Nat]
         /\ fired \in [Schedules -> Nat]
         /\ cron \in [Schedules -> Nat \ {0}]
         /\ downAt \in Nat \cup {None}
         /\ TTL \in Nat /\ clock # None
         /\ \A t \in Ticks : t \in Nat \ {0} /\ t \in RunIds /\ t \notin Manuals
         /\ \A p \in Periods : NextRun(p, clock) \in Nat /\ clock < NextRun(p, clock)
<1>1. /\ fired \in [Schedules -> 0..MaxTime] /\ cron \in [Schedules -> Periods]
      /\ clock \in 0..MaxTime /\ downAt \in 0..MaxTime \cup {None}
  BY DEF TypeOK
<1>2. \A p \in Periods : p \in Nat \ {0}
  BY SchedulerAssumption
<1>3. clock \in Nat
  BY <1>1, SchedulerAssumption
<1>4. \A p \in Periods : NextRun(p, clock) \in Nat /\ clock < NextRun(p, clock)
  BY <1>2, <1>3, NextRunLater
<1>5. fired \in [Schedules -> Nat] /\ downAt \in Nat \cup {None} /\ TTL \in Nat /\ clock # None
  BY <1>1, SchedulerAssumption
<1>6. cron \in [Schedules -> Nat \ {0}]
  BY <1>1, <1>2
<1>7. \A t \in Ticks : t \in Nat \ {0} /\ t \in RunIds /\ t \notin Manuals
  BY SchedulerAssumption DEF Ticks, RunIds
<1> QED
  BY <1>4, <1>5, <1>6, <1>7 DEF TypeOK

\* finalize() of a row that exists releases it and looks ahead; the others stay.
LEMMA FinalizeSays ==
  ASSUME TypeOK, NEW s, Finalize(s)
  PROVE  /\ s \in live => /\ held'[s] = FALSE
                          /\ lock'[s] = 0
                          /\ clock < next'[s] /\ next'[s] \in Nat
         /\ \A x \in live \ {s} : held'[x] = held[x] /\ lock'[x] = lock[x] /\ next'[x] = next[x]
<1>1. /\ next \in [Schedules -> Nat] /\ held \in [Schedules -> BOOLEAN] /\ lock \in [Schedules -> Nat]
      /\ live \subseteq Schedules
  BY SchedTypes, RowTypes
<1>2. CASE s \in live
  <2>1. cron[s] \in Periods
    BY <1>2 DEF TypeOK
  <2>2. NextRun(cron[s], clock) \in Nat /\ clock < NextRun(cron[s], clock)
    BY <2>1, RowTypes
  <2> QED
    BY <1>1, <1>2, <2>2 DEF Finalize
<1>3. CASE s \notin live
  BY <1>3 DEF Finalize
<1> QED
  BY <1>2, <1>3

\* No tick runs ahead of the clock, or while its loop goes on.
LEMMA TurnStep == TypeOK /\ TurnInv /\ [Next]_vars => TurnInv'
<1> SUFFICES ASSUME TypeOK, TurnInv, [Next]_vars PROVE TurnInv'
  OBVIOUS
<1>a. /\ clock \in Nat /\ turn \in Nat /\ DOMAIN run = RunIds
      /\ \A t \in Ticks : t \in Nat \ {0} /\ t \in RunIds /\ t \notin Manuals
      /\ None \notin Schedules /\ Ticks \subseteq RunIds /\ Manuals \subseteq RunIds
  BY SchedTypes, RowTypes, SchedulerAssumption DEF RunIds
<1>b. ASSUME UNCHANGED <<clock, turn, run>> PROVE TurnInv'
  BY <1>b DEF TurnInv
<1>c. ASSUME NEW r \in RunIds, run' = [run EXCEPT ![r] = Idle], clock' = clock,
             turn' = 0 \/ (turn' = r /\ r \in Ticks /\ r <= clock)
      PROVE  TurnInv'
  BY <1>a, <1>c DEF TurnInv
<1>d. ASSUME NEW r \in RunIds, NEW s \in Schedules, NEW u, clock' = clock, turn' = 0,
             run' = [run EXCEPT ![r] = [sched |-> s, until |-> u]],
             r \in Ticks => r <= clock
      PROVE  TurnInv'
  BY <1>a, <1>d DEF TurnInv
<1>1. CASE Tick
  <2>1. clock' = clock + 1 /\ run' = run /\ clock' \in Ticks
    BY <1>1, <1>a, SchedulerAssumption DEF Tick, TypeOK, Ticks
  <2>2. (turn' = turn /\ turn = 0) \/ turn' = clock'
    BY <1>1 DEF Tick
  <2>3. run[clock'] = Idle
    BY <1>a, <2>1 DEF TurnInv
  <2> QED
    BY <1>a, <2>1, <2>2, <2>3 DEF TurnInv
<1>2. ASSUME NEW t \in Ticks, TickLoop(t) PROVE TurnInv'
  <2>1. PICK s \in Listed(t) :
         IF Claimable(s, t)
         THEN TickRuns(t, s) \/ TickSkips(s)
         ELSE UNCHANGED <<held, lock, next, run, turn, overrun, fired>>
    BY <1>2 DEF TickLoop
  <2>2. clock' = clock /\ s \in Schedules /\ t <= clock
    BY <1>2 DEF TickLoop, Listed, TurnInv
  <2>3. CASE TickRuns(t, s)
    BY <1>a, <1>d, <2>2, <2>3 DEF TickRuns
  <2>4. CASE TickSkips(s)
    BY <1>b, <2>2, <2>4 DEF TickSkips
  <2>5. CASE UNCHANGED <<held, lock, next, run, turn, overrun, fired>>
    BY <1>b, <2>2, <2>5
  <2> QED
    BY <2>1, <2>3, <2>4, <2>5
<1>3. ASSUME NEW t \in Ticks, TickDone(t) PROVE TurnInv'
  BY <1>3, <1>a DEF TickDone, rowVars, histVars, TurnInv
<1>4. ASSUME NEW t \in Ticks, TickRunEnds(t) PROVE TurnInv'
  BY <1>4, <1>a, <1>c DEF TickRunEnds, TurnInv
<1>5. ASSUME NEW m \in Manuals, NEW s \in Schedules, RunOnce(m, s) PROVE TurnInv'
  BY <1>5, <1>a, <1>d DEF RunOnce
<1>6. ASSUME NEW m \in Manuals, ManualEnds(m) PROVE TurnInv'
  BY <1>6, <1>a, <1>c DEF ManualEnds
<1>7. ASSUME NEW s \in Schedules, RunOnceSkips(s) PROVE TurnInv'
  BY <1>7, <1>b DEF RunOnceSkips
<1>8. ASSUME NEW s \in Schedules, SetActive(s) PROVE TurnInv'
  BY <1>8, <1>b DEF SetActive
<1>9. ASSUME NEW s \in Schedules, Remove(s) PROVE TurnInv'
  BY <1>9, <1>b DEF Remove
<1>10. ASSUME NEW s \in Schedules, NEW p \in Periods, Create(s, p) PROVE TurnInv'
  BY <1>10, <1>b DEF Create
<1>11. ASSUME NEW s \in Schedules, NEW p \in Periods, EditCron(s, p) PROVE TurnInv'
  BY <1>11, <1>b DEF EditCron
<1>12. CASE PanelEnds
  <2>1. turn' = 0 /\ clock' = clock /\ \A r \in RunIds : run'[r] = Idle
    BY <1>12 DEF PanelEnds, RunIds
  <2>2. DOMAIN run' = RunIds
    BY <1>12 DEF PanelEnds, RunIds
  <2> QED
    BY <1>a, <2>1, <2>2 DEF TurnInv
<1>13. CASE Boot
  BY <1>13, <1>b DEF Boot
<1>14. CASE UNCHANGED vars
  BY <1>14, <1>b DEF vars
<1> QED
  BY <1>1, <1>2, <1>3, <1>4, <1>5, <1>6, <1>7, <1>8, <1>9, <1>10, <1>11, <1>12, <1>13, <1>14 DEF Next

\* The invariants about the rows that exist, which every step keeps together.
Rows == HorizonInv /\ OrphanLocksExpire /\ FiredInv

\* A step that runs nothing new keeps them if each row stays, or is released and
\* looks ahead of the clock.
LEMMA RowsQuiet ==
  ASSUME TypeOK, Rows, UNCHANGED <<clock, downAt, run>>,
         \A x \in live' :
           \/ x \in live /\ held'[x] = held[x] /\ lock'[x] = lock[x]
              /\ next'[x] = next[x] /\ fired'[x] = fired[x]
           \/ /\ held'[x] = FALSE /\ lock'[x] = 0
              /\ x \in live => next'[x] \in {next[x]} \cup {n \in Nat : clock < n} /\ fired'[x] = fired[x]
              /\ x \notin live => next'[x] \in Nat /\ clock < next'[x] /\ fired'[x] = 0
           \/ /\ x \in live /\ held'[x] = held[x] /\ lock'[x] = lock[x]
              /\ next'[x] \in Nat /\ clock < next'[x] /\ fired'[x] = fired[x]
  PROVE  Rows'
<1>1. clock \in Nat /\ TTL \in Nat /\ DOMAIN run = RunIds
  BY SchedTypes, RowTypes
<1>2. HorizonInv'
  BY <1>1 DEF Rows, HorizonInv
<1>3. OrphanLocksExpire'
  BY <1>1 DEF Rows, OrphanLocksExpire, Runs
<1>4. FiredInv'
  BY <1>1 DEF Rows, FiredInv, HorizonInv
<1> QED
  BY <1>2, <1>3, <1>4 DEF Rows

\* The end of a run of s, whose row is released.
LEMMA RowsLeave ==
  ASSUME TypeOK, Rows, UNCHANGED <<clock, downAt, live, fired>>,
         NEW r \in RunIds, NEW s, run[r].sched = s, run' = [run EXCEPT ![r] = Idle],
         None \notin live,
         \A x \in live \ {s} : held'[x] = held[x] /\ lock'[x] = lock[x] /\ next'[x] = next[x],
         s \in live => /\ held'[s] = FALSE /\ lock'[s] = 0
                       /\ \/ next'[s] = next[s] /\ r \notin Ticks
                          \/ next'[s] \in Nat /\ clock < next'[s]
  PROVE  Rows'
<1>1. /\ clock \in Nat /\ TTL \in Nat /\ DOMAIN run = RunIds /\ DOMAIN run' = RunIds
      /\ Ticks \subseteq RunIds
  BY SchedTypes, RowTypes
<1>2. HorizonInv'
  BY <1>1 DEF Rows, HorizonInv
<1>3. ASSUME NEW x \in live, x # s, NEW q \in RunIds, run[q].sched = x
      PROVE  run'[q].sched = x
  BY <1>1, <1>3
<1>4. OrphanLocksExpire'
  BY <1>1, <1>3 DEF Rows, OrphanLocksExpire, Runs
<1>5. FiredInv'
  <2> SUFFICES ASSUME NEW x \in live, next'[x] = fired'[x]
               PROVE  \E t \in Ticks : run'[t].sched = x
    BY DEF FiredInv
  <2>1. next[x] = fired[x] /\ (x # s \/ r \notin Ticks)
    BY <1>1 DEF Rows, HorizonInv
  <2>2. PICK t \in Ticks : run[t].sched = x
    BY <2>1 DEF Rows, FiredInv
  <2>3. run'[t].sched = x
    BY <1>1, <1>3, <2>1, <2>2
  <2> QED
    BY <2>3
<1> QED
  BY <1>2, <1>4, <1>5 DEF Rows

\* A claim of s by a run that was idle.
LEMMA RowsTake ==
  ASSUME TypeOK, Rows, UNCHANGED <<clock, downAt, live, next>>,
         NEW r \in RunIds, NEW s \in live, NEW u, u <= clock + TTL,
         run[r] = Idle, None \notin live,
         run' = [run EXCEPT ![r] = [sched |-> s, until |-> u]],
         held' = [held EXCEPT ![s] = TRUE],
         lock' = [lock EXCEPT ![s] = u],
         \/ fired' = fired
         \/ r \in Ticks /\ next[s] <= clock /\ fired' = [fired EXCEPT ![s] = next[s]]
  PROVE  Rows'
<1>1. /\ clock \in Nat /\ TTL \in Nat /\ DOMAIN run = RunIds /\ DOMAIN run' = RunIds
      /\ Ticks \subseteq RunIds /\ live \subseteq Schedules
      /\ held \in [Schedules -> BOOLEAN] /\ lock \in [Schedules -> Nat]
      /\ fired \in [Schedules -> Nat] /\ next \in [Schedules -> Nat]
  BY SchedTypes, RowTypes
<1>2. run'[r].sched = s
  BY <1>1
<1>3. ASSUME NEW x \in live, NEW q \in RunIds, run[q].sched = x
      PROVE  run'[q].sched = x
  BY <1>1, <1>3 DEF Idle
<1>4. \A x \in live : x # s => held'[x] = held[x] /\ lock'[x] = lock[x] /\ fired'[x] = fired[x]
  BY <1>1
<1>5. /\ lock'[s] = u
      /\ \/ fired'[s] = fired[s]
         \/ r \in Ticks /\ next[s] <= clock /\ fired'[s] = next[s]
  <2>1. lock'[s] = u
    BY <1>1
  <2>2. \/ fired'[s] = fired[s]
        \/ r \in Ticks /\ next[s] <= clock /\ fired'[s] = next[s]
    BY <1>1
  <2> QED
    BY <2>1, <2>2
<1>6. HorizonInv'
  BY <1>1, <1>4, <1>5 DEF Rows, HorizonInv
<1>7. OrphanLocksExpire'
  BY <1>1, <1>2, <1>3, <1>4 DEF Rows, OrphanLocksExpire, Runs
<1>8. FiredInv'
  <2> SUFFICES ASSUME NEW x \in live, next'[x] = fired'[x]
               PROVE  \E t \in Ticks : run'[t].sched = x
    BY DEF FiredInv
  <2>1. CASE x = s /\ r \in Ticks
    BY <1>2, <2>1
  <2>2. CASE ~(x = s /\ r \in Ticks)
    <3>1. next[x] = fired[x]
      BY <1>4, <1>5, <2>2
    <3>2. PICK t \in Ticks : run[t].sched = x
      BY <3>1 DEF Rows, FiredInv
    <3> QED
      BY <1>1, <1>3, <3>2
  <2> QED
    BY <2>1, <2>2
<1> QED
  BY <1>6, <1>7, <1>8 DEF Rows

\* No step breaks them.
LEMMA RowsStep == TypeOK /\ TurnInv /\ Rows /\ [Next]_vars => Rows'
<1> SUFFICES ASSUME TypeOK, TurnInv, Rows, [Next]_vars PROVE Rows'
  OBVIOUS
<1>a. /\ clock \in Nat /\ TTL \in Nat /\ live \subseteq Schedules /\ None \notin Schedules
      /\ held \in [Schedules -> BOOLEAN] /\ lock \in [Schedules -> Nat]
      /\ next \in [Schedules -> Nat] /\ fired \in [Schedules -> Nat]
      /\ DOMAIN run = RunIds /\ Ticks \subseteq RunIds /\ Manuals \subseteq RunIds
      /\ \A t \in Ticks : t \in Nat \ {0} /\ t \notin Manuals
      /\ \A p \in Periods : NextRun(p, clock) \in Nat /\ clock < NextRun(p, clock)
  BY SchedTypes, RowTypes, SchedulerAssumption DEF RunIds
<1>n. None \notin live
  BY <1>a
<1>1. CASE Tick
  <2>1. clock' = clock + 1 /\ UNCHANGED <<rowVars, run, fired, downAt>>
    BY <1>1 DEF Tick
  <2> QED
    BY <1>a, <2>1 DEF rowVars, Rows, HorizonInv, OrphanLocksExpire, FiredInv, Runs
<1>2. ASSUME NEW t \in Ticks, TickLoop(t) PROVE Rows'
  <2>1. PICK s \in Listed(t) :
         IF Claimable(s, t)
         THEN TickRuns(t, s) \/ TickSkips(s)
         ELSE UNCHANGED <<held, lock, next, run, turn, overrun, fired>>
    BY <1>2 DEF TickLoop
  <2>2. UNCHANGED <<clock, live, downAt>> /\ t <= clock /\ run[t] = Idle /\ s \in Schedules
    BY <1>2, <1>a DEF TickLoop, Listed, TurnInv
  <2>3. CASE Claimable(s, t) /\ TickRuns(t, s)
    <3>1. s \in live /\ next[s] <= t
      BY <2>3 DEF Claimable, Due
    <3>2. t + TTL <= clock + TTL /\ next[s] <= clock
      BY <1>a, <2>2, <3>1
    <3> QED
      BY <1>a, <1>n, <2>2, <2>3, <3>1, <3>2, RowsTake DEF TickRuns
  <2>4. CASE Claimable(s, t) /\ TickSkips(s)
    <3>1. Finalize(s) /\ UNCHANGED <<run, fired>> /\ s \in live
      BY <2>4 DEF TickSkips, Claimable, Due
    <3>2. /\ held'[s] = FALSE /\ lock'[s] = 0 /\ clock < next'[s] /\ next'[s] \in Nat
          /\ \A x \in live \ {s} : held'[x] = held[x] /\ lock'[x] = lock[x] /\ next'[x] = next[x]
      BY <3>1, FinalizeSays
    <3> QED
      BY <2>2, <3>1, <3>2, RowsQuiet
  <2>5. CASE UNCHANGED <<held, lock, next, run, turn, overrun, fired>>
    BY <2>2, <2>5, RowsQuiet
  <2> QED
    BY <2>1, <2>3, <2>4, <2>5
<1>3. ASSUME NEW t \in Ticks, TickDone(t) PROVE Rows'
  BY <1>3, RowsQuiet DEF TickDone, rowVars, histVars
<1>4. ASSUME NEW t \in Ticks, TickRunEnds(t) PROVE Rows'
  <2>1. Finalize(run[t].sched) /\ UNCHANGED <<clock, live, fired, downAt>> /\ run' = [run EXCEPT ![t] = Idle]
    BY <1>4 DEF TickRunEnds
  <2>2. /\ run[t].sched \in live => /\ held'[run[t].sched] = FALSE
                                    /\ lock'[run[t].sched] = 0
                                    /\ clock < next'[run[t].sched]
                                    /\ next'[run[t].sched] \in Nat
        /\ \A x \in live \ {run[t].sched} :
             held'[x] = held[x] /\ lock'[x] = lock[x] /\ next'[x] = next[x]
    BY <2>1, FinalizeSays
  <2> QED
    BY <1>a, <1>n, <2>1, <2>2, RowsLeave
<1>5. ASSUME NEW m \in Manuals, NEW s \in Schedules, RunOnce(m, s) PROVE Rows'
  <2>1. clock + TTL <= clock + TTL
    BY <1>a
  <2> QED
    BY <1>5, <1>a, <1>n, <2>1, RowsTake DEF RunOnce
<1>6. ASSUME NEW m \in Manuals, ManualEnds(m) PROVE Rows'
  <2>1. UNCHANGED <<clock, live, next, fired, downAt>> /\ run' = [run EXCEPT ![m] = Idle]
    BY <1>6 DEF ManualEnds
  <2>2. /\ run[m].sched \in live => held'[run[m].sched] = FALSE /\ lock'[run[m].sched] = 0
        /\ \A x \in live \ {run[m].sched} : held'[x] = held[x] /\ lock'[x] = lock[x]
    BY <1>6, <1>a DEF ManualEnds
  <2>3. m \notin Ticks
    BY <1>a
  <2> QED
    BY <1>a, <1>n, <2>1, <2>2, <2>3, RowsLeave
<1>7. ASSUME NEW s \in Schedules, RunOnceSkips(s) PROVE Rows'
  <2>1. UNCHANGED <<clock, live, next, fired, run, downAt>>
    BY <1>7 DEF RunOnceSkips, histVars
  <2>2. /\ held'[s] = FALSE /\ lock'[s] = 0
        /\ \A x \in live \ {s} : held'[x] = held[x] /\ lock'[x] = lock[x]
    BY <1>7, <1>a DEF RunOnceSkips
  <2> QED
    BY <2>1, <2>2, RowsQuiet
<1>8. ASSUME NEW s \in Schedules, SetActive(s) PROVE Rows'
  BY <1>8, RowsQuiet DEF SetActive, histVars
<1>9. ASSUME NEW s \in Schedules, Remove(s) PROVE Rows'
  <2>1. UNCHANGED <<clock, run, downAt>> /\ live' = live \ {s}
    BY <1>9 DEF Remove
  <2>2. \A x \in live \ {s} : held'[x] = held[x] /\ lock'[x] = lock[x] /\ next'[x] = next[x] /\ fired'[x] = fired[x]
    BY <1>9, <1>a DEF Remove
  <2> QED
    BY <2>1, <2>2, RowsQuiet
<1>10. ASSUME NEW s \in Schedules, NEW p \in Periods, Create(s, p) PROVE Rows'
  <2>1. UNCHANGED <<clock, run, downAt>> /\ live' = live \cup {s} /\ s \notin live
    BY <1>10 DEF Create
  <2>2. \A x \in live : held'[x] = held[x] /\ lock'[x] = lock[x] /\ next'[x] = next[x] /\ fired'[x] = fired[x]
    BY <1>10, <1>a DEF Create
  <2>3. held'[s] = FALSE /\ lock'[s] = 0 /\ next'[s] \in Nat /\ clock < next'[s] /\ fired'[s] = 0
    BY <1>10, <1>a DEF Create
  <2> QED
    BY <2>1, <2>2, <2>3, RowsQuiet
<1>11. ASSUME NEW s \in Schedules, NEW p \in Periods, EditCron(s, p) PROVE Rows'
  <2>1. UNCHANGED <<clock, run, downAt, live, held, lock, fired>>
    BY <1>11 DEF EditCron, histVars
  <2>2. /\ next'[s] \in Nat /\ clock < next'[s]
        /\ \A x \in live \ {s} : next'[x] = next[x]
    BY <1>11, <1>a DEF EditCron
  <2> QED
    BY <2>1, <2>2, RowsQuiet
<1>12. CASE PanelEnds
  <2>1. UNCHANGED <<clock, live, held, lock, next>> /\ downAt' = clock
        /\ \A x \in Schedules : fired'[x] = 0
    BY <1>12 DEF PanelEnds, rowVars
  <2>2. clock # None
    BY RowTypes
  <2> QED
    BY <1>a, <2>1, <2>2 DEF Rows, HorizonInv, OrphanLocksExpire, FiredInv
<1>13. CASE Boot
  BY <1>13, RowsQuiet DEF Boot, rowVars, histVars
<1>14. CASE UNCHANGED vars
  BY <1>14, RowsQuiet DEF vars, rowVars, histVars
<1> QED
  BY <1>1, <1>2, <1>3, <1>4, <1>5, <1>6, <1>7, <1>8, <1>9, <1>10, <1>11, <1>12, <1>13, <1>14 DEF Next

\* Only the claim begins a tick's run, so its condition held when it began.
LEMMA OnlyClaimsBegin ==
  ASSUME TypeOK, [Next]_vars, NEW t \in Ticks, NEW s \in Schedules, TickBegins(t, s)
  PROVE  Claimable(s, t) /\ turn = t
<1>a. DOMAIN run = RunIds /\ t \in RunIds /\ t \notin Manuals /\ Idle.sched # s
  BY SchedTypes, RowTypes, SchedulerAssumption DEF Idle
<1>b. run'[t] # run[t] /\ run'[t].sched = s
  BY DEF TickBegins
<1>c. ASSUME NEW r, run' = [run EXCEPT ![r] = Idle] PROVE FALSE
  BY <1>a, <1>b, <1>c
<1>d. ASSUME UNCHANGED run PROVE FALSE
  BY <1>b, <1>d
<1>1. PICK x \in Ticks : TickLoop(x) \/ TickDone(x) \/ TickRunEnds(x)
  <2>1. CASE Tick
    BY <1>d, <2>1 DEF Tick
  <2>2. ASSUME NEW m \in Manuals, ManualEnds(m) \/ \E y \in Schedules : RunOnce(m, y) PROVE FALSE
    BY <1>a, <1>b, <1>c, <2>2 DEF ManualEnds, RunOnce
  <2>3. ASSUME NEW y \in Schedules,
               \/ RunOnceSkips(y) \/ SetActive(y) \/ Remove(y)
               \/ \E p \in Periods : Create(y, p) \/ EditCron(y, p)
        PROVE  FALSE
    BY <1>d, <2>3 DEF RunOnceSkips, SetActive, Remove, Create, EditCron
  <2>4. CASE PanelEnds
    BY <1>a, <1>b, <2>4 DEF PanelEnds, RunIds
  <2>5. CASE Boot \/ UNCHANGED vars
    BY <1>d, <2>5 DEF Boot, vars
  <2> QED
    BY <2>1, <2>2, <2>3, <2>4, <2>5 DEF Next
<1>2. TickLoop(x)
  BY <1>1, <1>c, <1>d DEF TickDone, TickRunEnds
<1>3. PICK y \in Listed(x) :
         IF Claimable(y, x)
         THEN TickRuns(x, y) \/ TickSkips(y)
         ELSE UNCHANGED <<held, lock, next, run, turn, overrun, fired>>
  BY <1>2 DEF TickLoop
<1>4. Claimable(y, x) /\ TickRuns(x, y)
  BY <1>3, <1>d DEF TickSkips
<1>5. x = t /\ y = s
  BY <1>a, <1>b, <1>4 DEF TickRuns
<1> QED
  BY <1>2, <1>4, <1>5 DEF TickLoop

-----------------------------------------------------------------------------
(* The next run is a multiple of the period *)

\* Of the multiples of p, only zero lies between zero and p - 1.
LEMMA NoMultipleBelow ==
  ASSUME NEW p \in Nat \ {0}, NEW a \in Int, NEW r \in 0..(p - 1), a * p = r
  PROVE  r = 0
<1>1. CASE a >= 1
  BY <1>1
<1>2. CASE a <= -1
  BY <1>2
<1> QED
  BY <1>1, <1>2

\* nextRun() returns an occurrence of the expression, and not NULL.
LEMMA NextRunMatches ==
  ASSUME NEW p \in Nat \ {0}, NEW t \in Nat
  PROVE  NextRun(p, t) # 0 /\ NextRun(p, t) % p = 0
<1> DEFINE k == t \div p + 1
           n == k * p
           q == n \div p
           r == n % p
<1>1. k \in Nat \ {0}
  BY Z3
<1>2. n \in Nat \ {0}
  <2> HIDE DEF k
  <2> QED
    BY <1>1
<1>3. n = p * q + r /\ q \in Int /\ r \in 0..(p - 1)
  <2> HIDE DEF n
  <2> QED
    BY <1>2
<1>4. (k - q) * p = r /\ k - q \in Int
  <2> HIDE DEF k, q, r
  <2> QED
    BY <1>1, <1>3
<1>5. r = 0
  <2> HIDE DEF k, q, r
  <2> QED
    BY <1>3, <1>4, NoMultipleBelow
<1> QED
  BY <1>2, <1>5 DEF NextRun

\* Whoever writes a row's expression or its next run writes them together.
LEMMA NextStep == TypeOK /\ NextFollowsCron /\ [Next]_vars => NextFollowsCron'
<1> SUFFICES ASSUME TypeOK, NextFollowsCron, [Next]_vars PROVE NextFollowsCron'
  OBVIOUS
<1>a. /\ next \in [Schedules -> Nat] /\ cron \in [Schedules -> Periods]
      /\ live \subseteq Schedules
  BY RowTypes DEF TypeOK
<1>b. \A p \in Periods : NextRun(p, clock) # 0 /\ NextRun(p, clock) % p = 0
  <2>1. clock \in Nat /\ \A p \in Periods : p \in Nat \ {0}
    BY SchedulerAssumption DEF TypeOK
  <2> QED
    BY <2>1, NextRunMatches
<1>c. ASSUME UNCHANGED <<live, cron, next>> PROVE NextFollowsCron'
  BY <1>c DEF NextFollowsCron
<1>d. ASSUME NEW s, Finalize(s), UNCHANGED <<live, cron>> PROVE NextFollowsCron'
  BY <1>a, <1>b, <1>d DEF Finalize, NextFollowsCron
<1>1. CASE Tick \/ PanelEnds \/ Boot \/ UNCHANGED vars
  BY <1>1, <1>c DEF Tick, PanelEnds, Boot, vars, rowVars
<1>2. ASSUME NEW t \in Ticks, TickLoop(t) \/ TickDone(t) \/ TickRunEnds(t)
      PROVE  NextFollowsCron'
  <2>1. CASE TickLoop(t)
    BY <2>1, <1>c, <1>d DEF TickLoop, TickRuns, TickSkips
  <2>2. CASE TickDone(t)
    BY <2>2, <1>c DEF TickDone, rowVars
  <2>3. CASE TickRunEnds(t)
    BY <2>3, <1>d DEF TickRunEnds
  <2> QED
    BY <1>2, <2>1, <2>2, <2>3
<1>3. ASSUME NEW m \in Manuals, ManualEnds(m) \/ \E s \in Schedules : RunOnce(m, s)
      PROVE  NextFollowsCron'
  BY <1>3, <1>c DEF ManualEnds, RunOnce
<1>4. ASSUME NEW s \in Schedules, RunOnceSkips(s) \/ SetActive(s)
      PROVE  NextFollowsCron'
  BY <1>4, <1>c DEF RunOnceSkips, SetActive
<1>5. ASSUME NEW s \in Schedules, Remove(s)
      PROVE  NextFollowsCron'
  BY <1>a, <1>5 DEF Remove, NextFollowsCron
<1>6. ASSUME NEW s \in Schedules, NEW p \in Periods, Create(s, p) \/ EditCron(s, p)
      PROVE  NextFollowsCron'
  BY <1>a, <1>b, <1>6 DEF Create, EditCron, NextFollowsCron
<1> QED
  BY <1>1, <1>2, <1>3, <1>4, <1>5, <1>6 DEF Next

-----------------------------------------------------------------------------
(* The theorems *)

\* The strengthening holds in every state of the panel.
THEOREM SchedInvariant == Spec => []IndInv
<1>1. IndInv /\ [Next]_vars => IndInv'
  <2> SUFFICES ASSUME IndInv, [Next]_vars PROVE IndInv'
    OBVIOUS
  <2>1. TypeOK /\ TurnInv /\ Locks /\ Rows
    BY DEF IndInv, Locks, Rows
  <2>2. TypeOK'
    BY <2>1, SchedTypeStep
  <2>3. TurnInv' /\ Locks' /\ Rows'
    BY <2>1, <2>2, TurnStep, LocksStep, RowsStep
  <2> QED
    BY <2>2, <2>3 DEF IndInv, Locks, Rows
<1> QED
  BY SchedInit, <1>1, PTL DEF Spec

\* Type correctness, for any number of schedules and overlapping ticks.
THEOREM SchedTypeCorrect == Spec => []TypeOK
<1>1. IndInv => TypeOK
  BY DEF IndInv
<1> QED
  BY SchedInvariant, <1>1, PTL

\* A schedule is never run twice at once while no run of it has outlived its lock.
THEOREM NoOverlap == Spec => []NoOverlapUnlessOverrun
<1>1. IndInv => NoOverlapUnlessOverrun
  BY DEF IndInv
<1> QED
  BY SchedInvariant, <1>1, PTL

\* A lock whose run is gone is one a crash left, and ends within LOCK_TTL_MS of it.
THEOREM OrphansExpire == Spec => []OrphanLocksExpire
<1>1. IndInv => OrphanLocksExpire
  BY DEF IndInv
<1> QED
  BY SchedInvariant, <1>1, PTL

\* A schedule's next run is always one that its present expression asks for, whoever
\* finalized or edited the row last.
THEOREM NextFollows == Spec => []NextFollowsCron
<1>1. Init => NextFollowsCron
  BY DEF Init, NextFollowsCron
<1>2. TypeOK /\ NextFollowsCron /\ [Next]_vars => NextFollowsCron'
  BY NextStep
<1> QED
  BY SchedTypeCorrect, <1>1, <1>2, PTL DEF Spec

\* A tick begins no run of a disabled or deleted schedule, however old its list.
THEOREM DisabledStays == Spec => DisabledNeverFires
<1>1. IndInv /\ [Next]_vars =>
        [\A t \in Ticks, s \in Schedules : TickBegins(t, s) => s \in live /\ active[s]]_vars
  <2> SUFFICES ASSUME IndInv, [Next]_vars, NEW t \in Ticks, NEW s \in Schedules, TickBegins(t, s)
               PROVE  s \in live /\ active[s]
    OBVIOUS
  <2> QED
    BY OnlyClaimsBegin DEF IndInv, Claimable, Due
<1> QED
  BY SchedInvariant, <1>1, PTL DEF Spec, DisabledNeverFires

\* No occurrence is run twice, crashes and overruns aside.
THEOREM FiresOnlyOnce == Spec => FiresOnce
<1>1. IndInv /\ [Next]_vars =>
        [\A t \in Ticks, s \in Schedules :
           TickBegins(t, s) /\ ~overrun[s] => next[s] # fired[s]]_vars
  <2> SUFFICES ASSUME IndInv, [Next]_vars, NEW t \in Ticks, NEW s \in Schedules,
                      TickBegins(t, s), ~overrun[s], next[s] = fired[s]
               PROVE  FALSE
    OBVIOUS
  <2>1. TypeOK /\ TurnInv /\ LockInv /\ FiredInv
    BY DEF IndInv
  <2>2. Claimable(s, t) /\ turn = t
    BY <2>1, OnlyClaimsBegin
  <2>3. s \in live /\ Unlocked(s, t) /\ t \in Nat /\ t <= clock
    BY <2>1, <2>2, SchedTypes DEF Claimable, Due, TurnInv
  <2>4. Runs(s) = {}
    BY <2>1, <2>3, ClaimAlone
  <2>5. \A r \in Ticks : r \in DOMAIN run
    BY <2>1, SchedTypes, RowTypes
  <2> QED
    BY <2>1, <2>3, <2>4, <2>5 DEF FiredInv, Runs
<1> QED
  BY SchedInvariant, <1>1, PTL DEF Spec, FiresOnce
=============================================================================
