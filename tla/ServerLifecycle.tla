--------------------------- MODULE ServerLifecycle ---------------------------
(***************************************************************************)
(* The status of one server row (servers.status) under everything that     *)
(* writes it: creation, reinstall, a software switch, suspension,          *)
(* deletion and a panel restart.  Installs run in the background, so what  *)
(* a route checked may no longer hold when its install begins or ends.     *)
(*                                                                         *)
(* A process of the server is one Boolean here: PowerEngine.tla models how *)
(* it is started and killed.                                               *)
(***************************************************************************)
CONSTANTS
  Jobs,       \* reinstall and switch requests that can be in flight at once
  Versions    \* explicit values of the version variable, besides "latest"

VARIABLES
  status,     \* servers.status
  deleted,    \* servers.deleted_at is set
  running,    \* engine.stateOf is not offline
  version,    \* the version row of server_variables, "none" without one
  job,        \* what each request is doing
  disturbed   \* history: since some job began, the server was suspended, or a
              \* switch waited for its backup

vars == <<status, deleted, running, version, job, disturbed>>

Statuses == {"ready", "installing", "install_failed", "suspended", "deleted"}
Rows     == Versions \cup {"latest", "none"}

\* `asked` is what persistInstalledVersion gets as the requested version: "none"
\* when a switch named none.
Idle      == [at |-> "idle", asked |-> "none"]
JobStates == [at : {"idle", "backup", "install", "reinstall"}, asked : Rows]

TypeOK ==
  /\ status \in Statuses
  /\ deleted \in BOOLEAN
  /\ running \in BOOLEAN
  /\ version \in Rows
  /\ job \in [Jobs -> JobStates]
  /\ disturbed \in BOOLEAN

Installing(j) == job[j].at \in {"install", "reinstall"}

\* The history variable is forgotten once no job is in flight.
Disturb(now) ==
  disturbed' = /\ disturbed \/ now
               /\ \E j \in Jobs : job'[j] # Idle

-----------------------------------------------------------------------------
(* Installs *)

\* What storedVariables hands to the install: the row, or the default.
Stored == IF version = "none" THEN "latest" ELSE version

\* Variant for UndisturbedInstallIsAlone: the process is not looked at.
BeginReinstallBlind(j) ==
  /\ ~deleted
  /\ status # "installing"
  /\ job[j] = Idle
  /\ status' = "installing"
  /\ \E asked \in {Stored, "none"} :
       job' = [job EXCEPT ![j] = [at |-> "reinstall", asked |-> asked]]
  /\ Disturb(FALSE)
  /\ UNCHANGED <<deleted, running, version>>

\* POST install.  A suspended server is not refused.  Only blueprints with an
\* mcVersion variable hand a version on.
BeginReinstall(j) ==
  /\ ~deleted
  /\ status # "installing"
  /\ ~running
  /\ job[j] = Idle
  /\ status' = "installing"
  /\ \E asked \in {Stored, "none"} :
       job' = [job EXCEPT ![j] = [at |-> "reinstall", asked |-> asked]]
  /\ Disturb(FALSE)
  /\ UNCHANGED <<deleted, running, version>>

\* PUT software from the updateBlueprint call on: the blueprint is replaced, the
\* variables it does not declare go (the version may be one of them), the version
\* the request named, if any, is stored, and the install begins.
Switch(j, asked) ==
  /\ version' \in IF asked = "none" THEN {version, "none"} ELSE {asked}
  /\ status' = "installing"
  /\ job' = [job EXCEPT ![j] = [at |-> "install", asked |-> asked]]
  /\ UNCHANGED <<deleted, running>>

\* PUT software up to its first await: the checks, then the backup unless the
\* request declined it.
BeginSwitch(j, asked) ==
  /\ ~deleted
  /\ status \notin {"installing", "suspended"}
  /\ ~running
  /\ job[j] = Idle
  /\ \/ Switch(j, asked) /\ Disturb(FALSE)
     \/ /\ job' = [job EXCEPT ![j] = [at |-> "backup", asked |-> asked]]
        /\ Disturb(TRUE)
        /\ UNCHANGED <<status, deleted, running, version>>

\* The backup is done: the switch goes on without asking anything again.
BackupDone(j) ==
  /\ job[j].at = "backup"
  /\ Switch(j, job[j].asked)
  /\ Disturb(FALSE)

\* The backup failed: the request answers 409 and leaves the server as it was.
BackupFails(j) ==
  /\ job[j].at = "backup"
  /\ job' = [job EXCEPT ![j] = Idle]
  /\ Disturb(FALSE)
  /\ UNCHANGED <<status, deleted, running, version>>

\* persistInstalledVersion: an explicit version is stored whatever the row holds
\* now, a resolved one only over the value the install was asked to replace.  A
\* switch without a version read the row itself, explicit or not.
Persist(asked) ==
  \/ asked \in Versions /\ version' = asked
  \/ /\ asked \notin Versions
     /\ IF version \in {"none", asked} THEN version' \in Versions \cup {version}
                                       ELSE UNCHANGED version

\* Variant for InstallSettles: a finished install leaves the status to the client.
InstallDoneSilent(j) ==
  /\ Installing(j)
  /\ Persist(job[j].asked)
  /\ job' = [job EXCEPT ![j] = Idle]
  /\ Disturb(FALSE)
  /\ UNCHANGED <<status, deleted, running>>

InstallDone(j) ==
  /\ Installing(j)
  /\ Persist(job[j].asked)
  /\ status' = "ready"
  /\ job' = [job EXCEPT ![j] = Idle]
  /\ Disturb(FALSE)
  /\ UNCHANGED <<deleted, running>>

\* Variant for TypeOK: writes a status the schema does not list.
InstallFailsUnlisted(j) ==
  /\ Installing(j)
  /\ status' = "failed"
  /\ job' = [job EXCEPT ![j] = Idle]
  /\ Disturb(FALSE)
  /\ UNCHANGED <<deleted, running, version>>

InstallFails(j) ==
  /\ Installing(j)
  /\ status' = "install_failed"
  /\ job' = [job EXCEPT ![j] = Idle]
  /\ Disturb(FALSE)
  /\ UNCHANGED <<deleted, running, version>>

-----------------------------------------------------------------------------
(* Everything else that happens to the row *)

\* engine.start(): "ready" and offline are required.
Start ==
  /\ ~deleted
  /\ status = "ready"
  /\ ~running
  /\ running' = TRUE
  /\ UNCHANGED <<status, deleted, version, job, disturbed>>

\* The process ends, asked to or not.
Ends ==
  /\ running
  /\ running' = FALSE
  /\ UNCHANGED <<status, deleted, version, job, disturbed>>

\* PUT variables; allowed while an install is in flight.
EditVersion(v) ==
  /\ ~deleted
  /\ status # "suspended"
  /\ version' = v
  /\ UNCHANGED <<status, deleted, running, job, disturbed>>

Suspend ==
  /\ ~deleted
  /\ running' = FALSE
  /\ status' = "suspended"
  /\ UNCHANGED <<deleted, version, job>>
  /\ Disturb(TRUE)

Unsuspend ==
  /\ ~deleted
  /\ status = "suspended"
  /\ status' = "ready"
  /\ UNCHANGED <<deleted, running, version, job, disturbed>>

\* The row stays, its status may still be written by an install in flight.
Delete ==
  /\ ~deleted
  /\ running' = FALSE
  /\ deleted' = TRUE
  /\ status' = "deleted"
  /\ UNCHANGED <<version, job, disturbed>>

\* Variant for InstallingHasJob: boot looks at the runtime state only.
PanelRestartsKeeping ==
  /\ running' = FALSE
  /\ job' = [j \in Jobs |-> Idle]
  /\ disturbed' = FALSE
  /\ UNCHANGED <<status, deleted, version>>

\* A panel restart: the installs die with the panel, and boot marks what they
\* left behind as failed.
PanelRestarts ==
  /\ running' = FALSE
  /\ job' = [j \in Jobs |-> Idle]
  /\ status' = IF status = "installing" THEN "install_failed" ELSE status
  /\ disturbed' = FALSE
  /\ UNCHANGED <<deleted, version>>

-----------------------------------------------------------------------------
\* POST servers leaves a fresh row "ready", or "installing" with the creation's
\* own install in flight, asked for the blueprint's default version.
Init ==
  /\ deleted = FALSE
  /\ running = FALSE
  /\ version = "none"
  /\ disturbed = FALSE
  /\ \/ status = "ready" /\ job = [j \in Jobs |-> Idle]
     \/ /\ status = "installing"
        /\ \E c \in Jobs :
             job = [j \in Jobs |-> IF j = c THEN [at |-> "install", asked |-> "latest"] ELSE Idle]

JobStep(j) ==
  \/ BeginReinstall(j)
  \/ \E asked \in Rows : BeginSwitch(j, asked)
  \/ BackupDone(j)
  \/ BackupFails(j)
  \/ InstallDone(j)
  \/ InstallFails(j)

Next ==
  \/ \E j \in Jobs : JobStep(j)
  \/ Start
  \/ Ends
  \/ \E v \in Versions \cup {"latest"} : EditVersion(v)
  \/ Suspend
  \/ Unsuspend
  \/ Delete
  \/ PanelRestarts

\* Every download, archive and installer an install runs has a time limit.
Fairness ==
  \A j \in Jobs : WF_vars(InstallDone(j) \/ InstallFails(j)) /\ WF_vars(BackupDone(j) \/ BackupFails(j))

Spec == Init /\ [][Next]_vars
FairSpec == Spec /\ Fairness

-----------------------------------------------------------------------------
(* Properties *)

\* "installing" always has an install that will end it, even though suspension,
\* deletion and other installs write the same column: power, reinstall and switch
\* all refuse such a server, so a row without one would be stuck.
InstallingHasJob == status = "installing" => \E j \in Jobs : Installing(j)

\* The routes check the server and mark it "installing" in one step, so as long as
\* no suspension and no awaited backup came between, an install has the directory
\* for itself: no process, no second install.
UndisturbedInstallIsAlone ==
  ~disturbed =>
    /\ \A i, j \in Jobs : Installing(i) /\ Installing(j) => i = j
    /\ \A j \in Jobs : Installing(j) => ~running

\* An install ends with the server ready or failed, whatever else writes its row.
InstallSettles == status = "installing" ~> status # "installing"

\* "Offline-only: installing under a live process would mix old and new files."
NoProcessDuringInstall == running => \A j \in Jobs : ~Installing(j)

\* "suspended means an admin froze it": only an admin's unsuspension (or deletion)
\* thaws it.
SuspensionHolds ==
  [][~deleted /\ status = "suspended" => status' = "suspended" \/ Unsuspend \/ Delete]_vars

-----------------------------------------------------------------------------
(* The strengthening that makes the safety properties inductive *)

\* While nothing disturbed it, an install in flight shows in the status of a live
\* row, which is what keeps every other route away.
AloneInv ==
  ~disturbed =>
    /\ \A j \in Jobs : job[j].at # "backup"
    /\ \A j \in Jobs : ~deleted /\ Installing(j) => status = "installing"

IndInv ==
  /\ TypeOK
  /\ deleted => ~running
  /\ InstallingHasJob
  /\ UndisturbedInstallIsAlone
  /\ AloneInv
=============================================================================
