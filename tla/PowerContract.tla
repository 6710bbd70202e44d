---------------------------- MODULE PowerContract ----------------------------
(***************************************************************************)
(* What the panel promises about one game server's power state.  It has    *)
(* two: the one that requests are judged by (stateOf in the engine), which *)
(* moves only through offline -> running -> stopping -> offline, and the   *)
(* one that a person is shown (runtime_state of the row, in the listings   *)
(* and on the page), which follows it.  What is shown goes back from       *)
(* stopping to running in one case: a server stopped less than 1.2 s after *)
(* its start, when the start records what it believes.                     *)
(* PowerEngine.tla implements it (see ImplementsContract there).           *)
(***************************************************************************)

VARIABLES
  row,      \* what the servers row says: "ready", "suspended" or "deleted"
  power,    \* the state that requests are judged by
  shown,    \* the state that the panel shows for the server
  settling  \* whether a start has yet to record its outcome

vars == <<row, power, shown, settling>>

Rows == {"ready", "suspended", "deleted"}
Powers == {"offline", "running", "stopping"}
Shown == Powers \cup {"starting"}

Init ==
  /\ row = "ready"
  /\ power = "offline"
  /\ shown = "offline"
  /\ settling = FALSE

\* Only a ready server begins, of which nothing runs and nothing is shown to run.
Begin ==
  /\ row = "ready"
  /\ power = "offline" /\ shown = "offline"
  /\ power' = "running" /\ shown' = "starting"
  /\ settling' = TRUE
  /\ UNCHANGED row

\* The outcome of a start is shown unless nothing runs: over any other state.
Settle ==
  /\ settling
  /\ settling' \in BOOLEAN
  /\ shown' \in IF power = "offline" THEN {shown} ELSE {shown, "running"}
  /\ UNCHANGED <<row, power>>

\* A request to stop is shown, a request to kill is not.
AskToStop ==
  /\ power = "running"
  /\ power' = "stopping"
  /\ shown' \in {shown, "stopping"}
  /\ UNCHANGED <<row, settling>>

\* A server that is being stopped is asked again, or survives SIGKILL.
Insist ==
  /\ power = "stopping"
  /\ shown' = "stopping"
  /\ UNCHANGED <<row, power, settling>>

\* The process ended.
End ==
  /\ power # "offline"
  /\ power' = "offline" /\ shown' = "offline"
  /\ UNCHANGED <<row, settling>>

\* The panel ended, and with it all that it tracked.
PanelEnds ==
  /\ power' = "offline" /\ shown' = "offline"
  /\ settling' = FALSE
  /\ UNCHANGED row

Freeze ==
  /\ row = "ready"
  /\ row' = "suspended"
  /\ UNCHANGED <<power, shown, settling>>

Thaw ==
  /\ row = "suspended"
  /\ row' = "ready"
  /\ UNCHANGED <<power, shown, settling>>

\* Nothing is ever shown again for a deleted server.
Delete ==
  /\ row # "deleted"
  /\ row' = "deleted"
  /\ power' = "offline" /\ shown' = "offline"
  /\ UNCHANGED settling

Next ==
  \/ Begin \/ Settle \/ AskToStop \/ Insist \/ End
  \/ PanelEnds \/ Freeze \/ Thaw \/ Delete

Spec == Init /\ [][Next]_vars
=============================================================================
