----------------------------- MODULE PowerEngine -----------------------------
(***************************************************************************)
(* One game server under the local process engine of the panel             *)
(* (modules/runtime/engine.ts), driven by concurrent power requests,       *)
(* suspensions, deletions, panel shutdowns and panel crashes.              *)
(*                                                                         *)
(* The panel is one JavaScript thread.  A step of this specification is    *)
(* either a macrotask up to its first await (an HTTP handler, a timer, a   *)
(* child's 'exit' event) or ONE continuation taken from the microtask      *)
(* queue.  No macrotask runs while that queue is non-empty, and the queue  *)
(* is first in, first out: that order decides whether a restart's start()  *)
(* runs before or after a suspension that awaited the same exit.           *)
(*                                                                         *)
(* Servers share nothing in the engine but its Map, so one is modelled.    *)
(***************************************************************************)
EXTENDS Naturals, Sequences, SequencesExt

CONSTANTS
  Reqs,       \* requests the panel can be serving at once
  MaxSpawns   \* bound on the processes ever spawned; they are named 1, 2, ...

ASSUME MaxSpawnsAssumption == MaxSpawns \in Nat

VARIABLES
  row,            \* servers row: "ready", "suspended", or "deleted" (deleted_at set)
  runtimeState,   \* servers.runtime_state, kept across panel restarts
  panel,          \* "up", "sweeping" (SIGTERM), "closing" (no longer listening) or "down"
  proc,           \* the slot's tracked process, NoProc when null or no slot
  stopping,       \* the slot's stopping flag
  spawned,        \* how many processes were ever spawned
  alive,          \* processes the operating system still runs
  killed,         \* the alive ones that were sent SIGKILL
  children,       \* processes of this panel whose 'exit' has not been handled
  pc,             \* where each request is; between requests, whether the last one
                  \* succeeded ("ok") or failed or never was ("err")
  op,             \* what each request in progress was asked to do
  on,             \* the process a request awaits (stop, kill) or spawned (start)
  waiters,        \* exit listeners of the tracked process, in registration order
  micro           \* the microtask queue: requests with a continuation to run

slotVars == <<proc, stopping>>
osVars   == <<spawned, alive, killed>>
reqVars  == <<pc, op, on>>
vars == <<row, runtimeState, panel, slotVars, osVars, children, reqVars,
          waiters, micro>>

NoProc == 0
Procs  == 1..MaxSpawns

Rows     == {"ready", "suspended", "deleted"}
Runtime  == {"offline", "starting", "running", "stopping"}
Ops      == {"start", "stop", "restart", "kill", "suspend", "delete", "shutdown"}
Finished == {"ok", "err"}
Waiting  == {"stopWait", "killWait"}
Woken    == {"stopWoken", "killWoken"}
Later    == {"afterKill", "afterStop", "handler"}
Grace    == {"grace", "graceFailed"}
PCs      == Finished \cup Waiting \cup Woken \cup Later \cup Grace

SlotTypeOK ==
  /\ row \in Rows
  /\ runtimeState \in Runtime
  /\ panel \in {"up", "sweeping", "closing", "down"}
  /\ proc \in 0..spawned

ProcessTypeOK ==
  /\ spawned \in 0..MaxSpawns
  /\ alive \subseteq 1..spawned
  /\ killed \subseteq alive
  /\ children \subseteq 1..spawned

RequestTypeOK ==
  /\ pc \in [Reqs -> PCs]
  /\ op \in [Reqs -> Ops \cup {"none"}]
  /\ on \in [Reqs -> 0..spawned]
  /\ waiters \in Seq(Reqs)
  /\ micro \in Seq(Reqs)

TypeOK == SlotTypeOK /\ stopping \in BOOLEAN /\ ProcessTypeOK /\ RequestTypeOK

-----------------------------------------------------------------------------
(* What the engine reports *)

\* stateOf: without a tracked child the record decides (byId sees no deleted
\* row), with one the slot does.  The child's exitCode is set and its handlers
\* run in the same event, so a tracked child counts as running until then.
StateOf ==
  IF proc # NoProc
  THEN IF stopping THEN "stopping" ELSE "running"
  ELSE IF row # "deleted" /\ runtimeState = "starting" THEN "starting" ELSE "offline"

-----------------------------------------------------------------------------
(* Pieces shared by the handlers *)

Return(r, result) ==
  /\ pc' = [pc EXCEPT ![r] = result]
  /\ op' = [op EXCEPT ![r] = "none"]
  /\ on' = [on EXCEPT ![r] = NoProc]

\* A continuation that awaits again: it runs after everything already queued.
Requeue(r, where) ==
  /\ pc' = [pc EXCEPT ![r] = where]
  /\ micro' = Append(Tail(micro), r)
  /\ UNCHANGED <<op, on>>

\* Variant for TypeOK: clears the record to NULL, which setRuntimeState accepts.
FinishToNull ==
  /\ proc' = NoProc
  /\ stopping' = FALSE
  /\ runtimeState' = "null"

\* finish(): whichever process the slot now holds is dropped.
Finish ==
  /\ proc' = NoProc
  /\ stopping' = FALSE
  /\ runtimeState' = "offline"

\* waitForExit(): an exit listener on the process the slot holds.
WaitForExit(r, o, where) ==
  /\ pc' = [pc EXCEPT ![r] = where]
  /\ op' = [op EXCEPT ![r] = o]
  /\ on' = [on EXCEPT ![r] = proc]
  /\ waiters' = Append(waiters, r)

Sigkill == killed' = killed \cup ({proc} \cap alive)

\* A caller whose handler can begin now: no continuation is queued and the server
\* is found (a deleted one is 404).  The scheduler calls the engine as the power
\* route does, and nothing stops it while the panel shuts down.
Accepts(r) ==
  /\ panel # "down"
  /\ micro = <<>>
  /\ pc[r] \in Finished
  /\ row # "deleted"

-----------------------------------------------------------------------------
(* start() *)

\* Variant for OneLiveChild: does not ask whether a process is there.
StartChecksBlind == row = "ready"

\* Variant for ImplementsContract: trusts the check the route made earlier.
StartChecksLate == StateOf = "offline"

StartChecks ==
  /\ row = "ready"
  /\ StateOf = "offline"

\* From the "starting" record to the end of the synchronous part.  A spawn that
\* fails asynchronously (ENOENT) behaves as a child that dies at once.
Launch(r) ==
  /\ StartChecks
  /\ spawned < MaxSpawns
  /\ spawned' = spawned + 1
  /\ proc' = spawned'
  /\ stopping' = FALSE
  /\ runtimeState' = "starting"
  /\ alive' = alive \cup {spawned'}
  /\ children' = children \cup {spawned'}
  /\ pc' = [pc EXCEPT ![r] = "grace"]
  /\ op' = [op EXCEPT ![r] = "start"]
  /\ on' = [on EXCEPT ![r] = spawned']
  /\ UNCHANGED <<row, panel, killed>>

\* The synchronous part throws.  Either a check refused (suspended, not ready,
\* not offline, EULA, engine, Java, workdir) and nothing was written, or spawn()
\* itself threw and the record was put back to offline.
StartThrows(r) ==
  /\ Return(r, "err")
  /\ runtimeState' = IF StartChecks THEN "offline" ELSE runtimeState
  /\ stopping' = IF StartChecks THEN FALSE ELSE stopping
  /\ UNCHANGED <<row, panel, proc, osVars, children>>

Start(r) == Launch(r) \/ StartThrows(r)

\* start(), or restart() of a server with no process, whose stop() returns at
\* once.  The power route refuses a suspended server.
BeginStart(r) ==
  /\ Accepts(r)
  /\ row = "ready"
  /\ Start(r)
  /\ UNCHANGED <<waiters, micro>>

\* Variant for RecordMatchesSlot: looks only at its own failure flag.
EndGraceOwnFlag(r) ==
  /\ micro = <<>>
  /\ pc[r] \in Grace
  /\ IF pc[r] = "graceFailed"
     THEN Return(r, "err") /\ UNCHANGED runtimeState
     ELSE Return(r, "ok") /\ runtimeState' = "running"
  /\ UNCHANGED <<row, panel, slotVars, osVars, children, waiters, micro>>

\* The 1200 ms startup grace is over: report a process that failed, or record
\* "running" whatever the record says by now.
EndGrace(r) ==
  /\ micro = <<>>
  /\ pc[r] \in Grace
  /\ IF pc[r] = "graceFailed" \/ StateOf = "offline"
     THEN Return(r, "err") /\ UNCHANGED runtimeState
     ELSE Return(r, "ok") /\ runtimeState' = "running"
  /\ UNCHANGED <<row, panel, slotVars, osVars, children, waiters, micro>>

-----------------------------------------------------------------------------
(* stop(), kill() and their timers *)

\* stop() of a tracked process: flag, record, console command or signal, wait.
\* The process may obey or not.
BeginStop(r) ==
  /\ Accepts(r)
  /\ row = "ready"
  /\ proc # NoProc
  /\ stopping' = TRUE
  /\ runtimeState' = "stopping"
  /\ \E o \in {"stop", "restart"} : WaitForExit(r, o, "stopWait")
  /\ UNCHANGED <<row, panel, proc, osVars, children, micro>>

\* kill() of a tracked process, called by the power route, by suspension, by
\* deletion and by the shutdown sweep.
BeginKill(r, o) ==
  /\ proc # NoProc
  /\ stopping' = TRUE
  /\ Sigkill
  /\ WaitForExit(r, o, "killWait")
  /\ UNCHANGED <<row, runtimeState, proc, spawned, alive, children, micro>>

PowerKill(r) ==
  /\ Accepts(r)
  /\ row = "ready"
  /\ BeginKill(r, "kill")
  /\ UNCHANGED panel

\* Variant for StopsEnd: waits again instead of killing.
StopTimeoutGentle(r) ==
  /\ micro = <<>>
  /\ pc[r] = "stopWait"
  /\ \E i \in 1..Len(waiters) :
       /\ waiters[i] = r
       /\ waiters' = Append(RemoveAt(waiters, i), r)
  /\ pc' = [pc EXCEPT ![r] = "killWait"]
  /\ UNCHANGED <<row, runtimeState, panel, slotVars, osVars, children, op, on, micro>>

\* Variant for RequestsEnd: the graceful stop has no time limit.
StopTimeoutNever(r) == FALSE /\ UNCHANGED vars

\* The stop timeout fires first: stop() goes on to kill().
StopTimeout(r) ==
  /\ micro = <<>>
  /\ pc[r] = "stopWait"
  /\ \E i \in 1..Len(waiters) :
       /\ waiters[i] = r
       /\ waiters' = Append(RemoveAt(waiters, i), r)
  /\ pc' = [pc EXCEPT ![r] = "killWait"]
  /\ stopping' = TRUE
  /\ Sigkill
  /\ UNCHANGED <<row, runtimeState, panel, proc, spawned, alive, children, op, on, micro>>

\* Variant for NoLostChild: marks a process that survived SIGKILL offline.
KillTimeoutFinishes(r) ==
  /\ micro = <<>>
  /\ pc[r] = "killWait"
  /\ \E i \in 1..Len(waiters) :
       /\ waiters[i] = r
       /\ waiters' = RemoveAt(waiters, i)
  /\ Finish
  /\ panel' = IF op[r] = "shutdown" THEN "closing" ELSE panel
  /\ Return(r, "err")
  /\ UNCHANGED <<row, osVars, children, micro>>

\* Variant for SuccessMeansDead: the caller is told the kill worked.
KillTimeoutSucceeds(r) ==
  /\ micro = <<>>
  /\ pc[r] = "killWait"
  /\ \E i \in 1..Len(waiters) :
       /\ waiters[i] = r
       /\ waiters' = RemoveAt(waiters, i)
  /\ runtimeState' = "stopping"
  /\ panel' = IF op[r] = "shutdown" THEN "closing" ELSE panel
  /\ Return(r, "ok")
  /\ UNCHANGED <<row, slotVars, osVars, children, micro>>

\* Five seconds after SIGKILL the process is still there: kill() refuses to call
\* it offline and throws.  The shutdown sweep carries on.
KillTimeout(r) ==
  /\ micro = <<>>
  /\ pc[r] = "killWait"
  /\ \E i \in 1..Len(waiters) :
       /\ waiters[i] = r
       /\ waiters' = RemoveAt(waiters, i)
  /\ runtimeState' = "stopping"
  /\ panel' = IF op[r] = "shutdown" THEN "closing" ELSE panel
  /\ Return(r, "err")
  /\ UNCHANGED <<row, slotVars, osVars, children, micro>>

-----------------------------------------------------------------------------
(* The 'exit' event and the continuations it queues *)

\* What the exit of its process does to a caller that was at `where`: a wait is
\* over; a start() in its grace period failed, unless the process was stopped.
AfterExit(where) ==
  IF where = "stopWait" THEN "stopWoken"
  ELSE IF where = "killWait" THEN "killWoken"
  ELSE IF where = "grace" /\ ~stopping THEN "graceFailed"
  ELSE where

\* The child's exit handlers: the engine's own first (startup failure, finish),
\* then the exit listeners, whose promises queue one continuation each.
ExitEvent(p) ==
  /\ micro = <<>>
  /\ p \in children \ alive
  /\ children' = children \ {p}
  /\ Finish
  /\ pc' = [r \in Reqs |-> IF on[r] = p THEN AfterExit(pc[r]) ELSE pc[r]]
  /\ micro' = IF p = proc THEN waiters ELSE <<>>
  /\ waiters' = IF p = proc THEN <<>> ELSE waiters
  /\ UNCHANGED <<row, panel, osVars, op, on>>

\* stop() resumes, from its own wait or from the kill() it escalated to.
StopResumes(r) ==
  /\ pc[r] \in {"stopWoken", "afterKill"}
  /\ IF op[r] = "restart"
     THEN Requeue(r, "afterStop")
     ELSE Return(r, "ok") /\ micro' = Tail(micro)
  /\ UNCHANGED <<row, runtimeState, panel, slotVars, osVars, children, waiters>>

\* kill() resumes after the exit and calls finish() once more.
KillResumes(r) ==
  /\ pc[r] = "killWoken"
  /\ Finish
  /\ \/ op[r] \in {"stop", "restart"} /\ Requeue(r, "afterKill")
     \/ op[r] \in {"suspend", "delete", "shutdown"} /\ Requeue(r, "handler")
     \/ op[r] = "kill" /\ Return(r, "ok") /\ micro' = Tail(micro)
  /\ UNCHANGED <<row, panel, osVars, children, waiters>>

\* restart() resumes after stop() and calls start().
RestartResumes(r) ==
  /\ pc[r] = "afterStop"
  /\ Start(r)
  /\ micro' = Tail(micro)
  /\ UNCHANGED waiters

-----------------------------------------------------------------------------
(* Suspension, deletion, shutdown *)

\* What follows `await engine.kill(id)` in the suspend, delete and shutdown
\* handlers.  A deleted row keeps deleted_at, so it stays deleted for byId.
AfterKill(o) ==
  \/ /\ o = "suspend"
     /\ row' = IF row = "deleted" THEN "deleted" ELSE "suspended"
     /\ UNCHANGED <<panel, slotVars>>
  \/ /\ o = "delete"
     /\ row' = "deleted"
     /\ proc' = NoProc       \* forget(): the slot leaves the Map
     /\ stopping' = FALSE
     /\ UNCHANGED panel
  \/ /\ o = "shutdown"
     /\ panel' = "closing"
     /\ UNCHANGED <<row, slotVars>>

HandlerResumes(r) ==
  /\ pc[r] = "handler"
  /\ AfterKill(op[r])
  /\ Return(r, "ok")
  /\ micro' = Tail(micro)
  /\ UNCHANGED <<runtimeState, osVars, children, waiters>>

\* With no tracked process kill() returns at once and the handler's second half
\* runs in the same macrotask.
AtOnce(r, o) ==
  /\ proc = NoProc
  /\ AfterKill(o)
  /\ Return(r, "ok")
  /\ UNCHANGED <<runtimeState, osVars, children, waiters, micro>>

AdminRequest(r) ==
  /\ Accepts(r)
  /\ panel # "closing"
  /\ \E o \in {"suspend", "delete"} :
       AtOnce(r, o) \/ (BeginKill(r, o) /\ UNCHANGED panel)

\* SIGTERM: sweep every live slot while the panel still serves requests, then
\* stop listening.
Shutdown(r) ==
  /\ panel = "up"
  /\ micro = <<>>
  /\ pc[r] \in Finished
  /\ AtOnce(r, "shutdown") \/ (BeginKill(r, "shutdown") /\ panel' = "sweeping")

Unsuspend ==
  /\ panel \in {"up", "sweeping"}
  /\ micro = <<>>
  /\ row = "suspended"
  /\ row' = "ready"
  /\ UNCHANGED <<runtimeState, panel, slotVars, osVars, children, reqVars, waiters, micro>>

RunMicrotask ==
  /\ micro # <<>>
  /\ LET r == Head(micro) IN
       StopResumes(r) \/ KillResumes(r) \/ RestartResumes(r) \/ HandlerResumes(r)

-----------------------------------------------------------------------------
(* The operating system and the panel's own life *)

\* Any process may end by itself, obey its stop command, or die of SIGKILL.
ProcessDies(p) ==
  /\ p \in alive
  /\ alive' = alive \ {p}
  /\ killed' = killed \ {p}
  /\ UNCHANGED <<row, runtimeState, panel, slotVars, spawned, children, reqVars, waiters, micro>>

\* process.exit at the end of a shutdown, an uncaught exception, or a killed
\* panel: every JavaScript object is gone, the record and the children stay.
PanelEnds ==
  /\ panel # "down"
  /\ panel' = "down"
  /\ proc' = NoProc
  /\ stopping' = FALSE
  /\ children' = {}
  /\ pc' = [r \in Reqs |-> "err"]
  /\ op' = [r \in Reqs |-> "none"]
  /\ on' = [r \in Reqs |-> NoProc]
  /\ waiters' = <<>>
  /\ micro' = <<>>
  /\ UNCHANGED <<row, runtimeState, osVars>>

\* buildPanel: records that are not offline are reconciled before it listens.
Boot ==
  /\ panel = "down"
  /\ panel' = "up"
  /\ runtimeState' = "offline"
  /\ UNCHANGED <<row, slotVars, osVars, children, reqVars, waiters, micro>>

-----------------------------------------------------------------------------
Init ==
  /\ row = "ready"
  /\ runtimeState = "offline"
  /\ panel = "up"
  /\ proc = NoProc
  /\ stopping = FALSE
  /\ spawned = 0
  /\ alive = {}
  /\ killed = {}
  /\ children = {}
  /\ pc = [r \in Reqs |-> "err"]
  /\ op = [r \in Reqs |-> "none"]
  /\ on = [r \in Reqs |-> NoProc]
  /\ waiters = <<>>
  /\ micro = <<>>

Next ==
  \/ \E r \in Reqs :
       \/ BeginStart(r)
       \/ EndGrace(r)
       \/ BeginStop(r)
       \/ PowerKill(r)
       \/ StopTimeout(r)
       \/ KillTimeout(r)
       \/ AdminRequest(r)
       \/ Shutdown(r)
  \/ \E p \in Procs : ExitEvent(p) \/ ProcessDies(p)
  \/ Unsuspend
  \/ RunMicrotask
  \/ PanelEnds
  \/ Boot

\* The event loop runs its continuations, its timers and its events, and SIGKILL
\* takes effect.  Nobody has to send a request, no process has to end by itself,
\* and nobody has to restart the panel.
Fairness ==
  /\ WF_vars(RunMicrotask)
  /\ \A r \in Reqs : WF_vars(EndGrace(r)) /\ WF_vars(StopTimeout(r)) /\ WF_vars(KillTimeout(r))
  /\ \A p \in Procs : WF_vars(ExitEvent(p)) /\ WF_vars(p \in killed /\ ProcessDies(p))

Spec == Init /\ [][Next]_vars
FairSpec == Spec /\ Fairness

-----------------------------------------------------------------------------
(* Properties *)

\* Whatever power requests, timers and exits interleave, this panel never has two
\* live processes of one server: two would share its directory and its port.
OneLiveChild == \A p, q \in children \cap alive : p = q

\* A live process of an existing server is the one the slot tracks: the engine
\* can still stop it.  finish() clears the slot by server id, not by process, so
\* this depends on no finish() running after the next start().
NoLostChild ==
  panel # "down" /\ row # "deleted" => children \subseteq {proc}

\* The record other parts of the panel read (listings, offline checks after a
\* restart) says offline exactly when the engine tracks no process, although
\* start() writes it again 1.2 s after the spawn.
RecordMatchesSlot ==
  panel # "down" /\ row # "deleted" => (runtimeState = "offline" <=> proc = NoProc)

\* stop(), kill(), suspension and deletion report success only once the process
\* they waited for is dead ("refuses to lie").
SuccessMeansDead ==
  [][\A r \in Reqs :
       op[r] \in {"stop", "kill", "suspend", "delete"} /\ pc[r] \notin Finished /\ pc'[r] = "ok"
         => on[r] \notin alive']_vars

\* Both power states of a server follow PowerContract: a process begins only on a
\* ready server that is offline by either; one that is being stopped ends before
\* another begins; and the record, which the listings and the page show, turns from
\* "stopping" to "running" only when a start's grace period ends (the last line of
\* start(), which does not ask whether the server is stopping by then).  A deleted
\* server, or one of a panel that is down, is not shown at all.
Power == IF proc = NoProc THEN "offline" ELSE StateOf
Shown == IF panel = "down" \/ row = "deleted" THEN "offline" ELSE runtimeState
Settling == \E r \in Reqs : pc[r] \in Grace
Contract == INSTANCE PowerContract WITH power <- Power, shown <- Shown, settling <- Settling
ImplementsContract == Contract!Spec

\* Every request is answered, or the panel that took it ends.
RequestsEnd == \A r \in Reqs : pc[r] \notin Finished ~> pc[r] \in Finished

\* A process that is being stopped dies: stop() escalates to SIGKILL.
StopsEnd ==
  \A p \in Procs : (proc = p /\ stopping) ~> (p \notin alive \/ panel = "down")

\* What the suspension and deletion handlers set out to ensure by killing first:
\* once no continuation is pending, a server that is not ready has no live process.
InertHasNoProcess ==
  panel # "down" /\ micro = <<>> /\ row # "ready" => children \cap alive = {}

-----------------------------------------------------------------------------
(* The strengthening that makes the safety properties inductive *)

\* The slot holds the panel's only child, unless deletion forgot the slot.
SlotInv ==
  /\ \A p, q \in children : p = q
  /\ row # "deleted" => \A p \in children : p = proc
  /\ proc # NoProc => proc \in children /\ row # "deleted"
  /\ panel = "down" => children = {} /\ micro = <<>> /\ \A r \in Reqs : pc[r] \in Finished

\* Whoever waits, waits for the tracked process, and only between microtasks.
WaitInv ==
  /\ \A r \in Reqs : pc[r] \in Waiting => proc # NoProc /\ on[r] = proc /\ micro = <<>>
  /\ \A i \in 1..Len(waiters) : pc[waiters[i]] \in Waiting
  /\ \A i, j \in 1..Len(waiters) : waiters[i] = waiters[j] => i = j

\* Waiters woken by an exit resume before anything they queue, so every finish()
\* of a woken kill() runs before the first start() of a woken restart().
QueueInv ==
  /\ \A i \in 1..Len(micro) : pc[micro[i]] \in Woken \cup Later
  /\ \A i, j \in 1..Len(micro) : micro[i] = micro[j] => i = j
  /\ \A i, j \in 1..Len(micro) :
       i < j /\ pc[micro[j]] \in Woken => pc[micro[i]] \in Woken
  /\ \A i \in 1..Len(micro) : pc[micro[i]] \in Woken => proc = NoProc

\* What a continuation waited for is dead; only a start waits out a grace period.
DeadInv ==
  \A r \in Reqs :
    /\ pc[r] \in Woken \cup Later => on[r] \notin alive
    /\ pc[r] \in Grace => op[r] = "start"

\* A process that somebody waits for is being stopped.
StopInv == \A r \in Reqs : pc[r] \in Waiting => stopping

IndInv ==
  TypeOK /\ SlotInv /\ RecordMatchesSlot /\ WaitInv /\ QueueInv /\ DeadInv /\ StopInv
=============================================================================
